---------------------------- MODULE Spec2Model ----------------------------
(***************************************************************************)
(* A model of the XLIFF translator: xliff_translate_google.py (walker,     *)
(* translation adapter, markup reconstructor, orchestrator) and the QA     *)
(* classifier of app.py.                                                   *)
(*                                                                         *)
(* Data representation                                                     *)
(*   - a Python str is a sequence of one-character strings;                *)
(*   - an Optional value is a sequence of length 0 (None) or 1 (Some(v));  *)
(*   - an ElementTree element is a record                                  *)
(*       [tag, attrib, text, tail, kids]  with text, tail Optional strs;   *)
(*   - a reference to an element inside a subtree is the path of child     *)
(*     indices that leads to it from the subtree's root.                   *)
(***************************************************************************)
EXTENDS Integers, Sequences, FiniteSets, TLC

VARIABLES
    xliff_bytes,        \* the parsed input document, as it was given
    opts,               \* TranslationOptions
    batch_size,         \* translate_xliff_bytes_google's batch_size
    has_callback,       \* whether a progress_callback was passed
    faults_left,        \* how many more calls the backend may fail
    root,               \* the document tree, mutated in place
    tus_for_progress,   \* the units that have a source: <<unit index, id>>
    pc,                 \* position in translate_xliff_bytes_google / app
    start,              \* the batch loop's start
    end,                \* the batch loop's end
    batch_node_maps,    \* per unit of the batch: [tu, unit_id, src_nodes]
    batch_texts,        \* the flat list of cores sent to the adapter
    out,                \* translate_texts_deep_safe's out
    failed,             \* translate_texts_deep_safe's failed
    used,               \* used_fallback of each _safe_translate_one call
    attempt,            \* _safe_translate_one's attempt
    events,             \* backend calls and sleeps of the current string
    translated_flat,    \* the adapter's returned list
    failed_count,       \* the adapter's returned failure count
    idx,                \* the running offset into translated_flat
    bi,                 \* how many units of the batch are rebuilt
    results,            \* the list of SegmentResult
    progress_calls,     \* the progress callback's invocations, in order
    returned,           \* Optional (out_bytes, results)
    qa_in,              \* QA check input: the joined itertext of source, target
    df                  \* Optional: the table qa_flags returned

vars == <<xliff_bytes, opts, batch_size, has_callback, faults_left, root,
          tus_for_progress, pc, start, end, batch_node_maps, batch_texts,
          out, failed, used, attempt, events, translated_flat, failed_count,
          idx, bi, results, progress_calls, returned, qa_in, df>>

---------------------------------------------------------------------------
(* Optional values and strings                                             *)

None == <<>>
Some(v) == <<v>>

\* The characters Python's str.strip and the regex class \s take as space.
WS == {" ", "\n", "\t"}

Lowers == <<"a","b","c","d","e","f","g","h","i","j","k","l","m",
            "n","o","p","q","r","s","t","u","v","w","x","y","z">>
Uppers == <<"A","B","C","D","E","F","G","H","I","J","K","L","M",
            "N","O","P","Q","R","S","T","U","V","W","X","Y","Z">>
Digits == {"0","1","2","3","4","5","6","7","8","9"}

Range(f) == {f[i] : i \in DOMAIN f}

\* str.lower, one character
LowerChar(c) ==
    IF \E i \in 1..26 : Uppers[i] = c
    THEN Lowers[CHOOSE i \in 1..26 : Uppers[i] = c]
    ELSE c

\* str.lower
Lower(s) == [i \in 1..Len(s) |-> LowerChar(s[i])]

RECURSIVE LStrip(_)
LStrip(s) == IF s # <<>> /\ Head(s) \in WS THEN LStrip(Tail(s)) ELSE s

RECURSIVE RStrip(_)
RStrip(s) ==
    IF s # <<>> /\ s[Len(s)] \in WS THEN RStrip(SubSeq(s, 1, Len(s) - 1)) ELSE s

\* str.strip
Strip(s) == RStrip(LStrip(s))

\* re.sub(r"\s+", " ", s): every maximal run of whitespace becomes one space
RECURSIVE CollapseWs(_)
CollapseWs(s) ==
    IF s = <<>> THEN <<>>
    ELSE IF Head(s) \in WS
         THEN <<" ">> \o CollapseWs(LStrip(s))
         ELSE <<Head(s)>> \o CollapseWs(Tail(s))

RECURSIVE Concat(_)
Concat(ss) == IF ss = <<>> THEN <<>> ELSE Head(ss) \o Concat(Tail(ss))

\* whether k occurs in s at position i
OccursAt(s, k, i) ==
    /\ i >= 1
    /\ i + Len(k) - 1 <= Len(s)
    /\ SubSeq(s, i, i + Len(k) - 1) = k

\* Python's `k in s`
Contains(s, k) == \E i \in 1..(Len(s) + 1) : OccursAt(s, k, i)

\* str.replace(k, v): leftmost non-overlapping occurrences, left to right;
\* an empty k matches before every character and at the end.
RECURSIVE Replace(_, _, _)
Replace(s, k, v) ==
    IF k = <<>>
    THEN IF s = <<>> THEN v ELSE v \o <<Head(s)>> \o Replace(Tail(s), k, v)
    ELSE IF Len(s) < Len(k) THEN s
    ELSE IF OccursAt(s, k, 1)
         THEN v \o Replace(SubSeq(s, Len(k) + 1, Len(s)), k, v)
         ELSE <<Head(s)>> \o Replace(Tail(s), k, v)

---------------------------------------------------------------------------
(* xliff_translate_google.py: helpers                                      *)

\* "".join(elem.itertext()): text, then per child its itertext and its tail
RECURSIVE IterText(_)
IterText(elem) ==
    LET RECURSIVE FromKid(_)
        FromKid(i) ==
            IF i > Len(elem.kids) THEN <<>>
            ELSE IterText(elem.kids[i])
                 \o (IF elem.kids[i].tail = None THEN <<>> ELSE elem.kids[i].tail[1])
                 \o FromKid(i + 1)
    IN (IF elem.text = None THEN <<>> ELSE elem.text[1]) \o FromKid(1)

\* extract_visible_text applied to the joined itertext
VisibleText(joined) == Strip(CollapseWs(joined))

\* extract_visible_text; elem is Optional
extract_visible_text(elem) ==
    IF elem = None THEN <<>> ELSE VisibleText(IterText(elem[1]))

\* sorted(glossary.keys(), key=len, reverse=True): a stable sort, so keys of
\* equal length stay in the dict's insertion order.  glossary is the sequence
\* of <<key, value>> items in insertion order.
RECURSIVE SortedByLenDesc(_)
SortedByLenDesc(items) ==
    IF items = <<>> THEN <<>>
    ELSE LET rest == SortedByLenDesc(Tail(items))
             h == Head(items)
             \* h goes before the first item that is not longer than it
             pos == IF \E i \in 1..Len(rest) : Len(rest[i][1]) <= Len(h[1])
                    THEN CHOOSE i \in 1..Len(rest) :
                            /\ Len(rest[i][1]) <= Len(h[1])
                            /\ \A j \in 1..(i - 1) : Len(rest[j][1]) > Len(h[1])
                    ELSE Len(rest) + 1
         IN SubSeq(rest, 1, pos - 1) \o <<h>> \o SubSeq(rest, pos, Len(rest))

RECURSIVE ReplaceAll(_, _)
ReplaceAll(text, items) ==
    IF items = <<>> THEN text
    ELSE ReplaceAll(Replace(text, items[1][1], items[1][2]), Tail(items))

\* _apply_glossary; glossary is Optional
_apply_glossary(text, glossary) ==
    IF glossary = None \/ glossary[1] = <<>> THEN text
    ELSE ReplaceAll(text, SortedByLenDesc(glossary[1]))

\* _looks_untranslated
_looks_untranslated(source, target) ==
    LET s == CollapseWs(Strip(Lower(source)))
        t == CollapseWs(Strip(Lower(target)))
    IN s # <<>> /\ t # <<>> /\ s = t

\* _split_ws as it would be with the whitespace dropped: ("", s.strip(), "")
SplitWsStripped(s) == <<<<>>, Strip(s), <<>>>>

\* _split_ws: ^(\s*)(.*?)(\s*)$ with DOTALL.  The first group is greedy, the
\* second lazy, so the core is the shortest text after the leading
\* whitespace that leaves only whitespace behind it.
_split_ws(s) ==
    LET rest == LStrip(s)
        lead == SubSeq(s, 1, Len(s) - Len(rest))
        core == RStrip(rest)
        trail == SubSeq(rest, Len(core) + 1, Len(rest))
    IN <<lead, core, trail>>

\* one entry of _collect_text_nodes' list
TextNode(path, which, s) ==
    LET p == _split_ws(s)
    IN [node |-> path, which |-> which, lead |-> p[1], core |-> p[2],
        trail |-> p[3]]

\* the test `x is not None and x != ""` of _collect_text_nodes
HasText(slot) == slot # None /\ slot # Some(<<>>)

\* _collect_text_nodes: path is the place of elem under the walked subtree
RECURSIVE CollectAt(_, _)
CollectAt(elem, path) ==
    LET RECURSIVE FromKid(_)
        FromKid(i) ==
            IF i > Len(elem.kids) THEN <<>>
            ELSE LET child == elem.kids[i]
                     cp == Append(path, i)
                 IN (IF HasText(child.text)
                     THEN <<TextNode(cp, "text", child.text[1])>> ELSE <<>>)
                    \o (IF HasText(child.tail)
                        THEN <<TextNode(cp, "tail", child.tail[1])>> ELSE <<>>)
                    \o CollectAt(child, cp)
                    \o FromKid(i + 1)
    IN (IF HasText(elem.text)
        THEN <<TextNode(path, "text", elem.text[1])>> ELSE <<>>)
       \o FromKid(1)

_collect_text_nodes(elem) == CollectAt(elem, <<>>)

\* _set_node_text on the element at path under elem
RECURSIVE _set_node_text(_, _, _, _)
_set_node_text(elem, path, which, value) ==
    IF path = <<>>
    THEN IF which = "text" THEN [elem EXCEPT !.text = Some(value)]
         ELSE [elem EXCEPT !.tail = Some(value)]
    ELSE [elem EXCEPT !.kids[Head(path)] =
              _set_node_text(elem.kids[Head(path)], Tail(path), which, value)]


---------------------------------------------------------------------------
(* xliff_translate_google.py: the translation adapter                      *)

\* The backend's answer when translator.translate(text) does not raise: a
\* deterministic stand-in for the external service.
TranslateChar(c) == CASE c = "a" -> "x" [] c = "b" -> "y" [] OTHER -> c

Translate(text) == [i \in 1..Len(text) |-> TranslateChar(text[i])]

\* `if not text.strip()`: the string is answered without a backend call
SkipsBackend(text) == Strip(text) = <<>>

\* `if attempt < opts.retries`: a sleep follows this failed attempt
ShouldSleep(o, att) == att < o.retries

\* the delay as it would be with the attempt index taken as it is
BackoffDelayFromZero(o, att) == o.retry_backoff_s * att

\* opts.retry_backoff_s * (attempt + 1)
BackoffDelay(o, att) == o.retry_backoff_s * (att + 1)

\* the fallback value as it would be with the marking flag ignored
FallbackTextUnmarked(o, text) == text

\* the fallback value of _safe_translate_one
FallbackText(o, text) ==
    IF o.mark_fallback_in_target
    THEN <<"[", "[">> \o text \o <<"]", "]">>
    ELSE text

\* the fallback decision as it would be with the flag ignored
FallsBackAlways(o) == TRUE

\* whether the exhausted string falls back (TRUE) or re-raises (FALSE)
FallsBack(o) == o.fallback_to_source_on_error

Event(kind, att, ok, delay) ==
    [kind |-> kind, attempt |-> att, ok |-> ok, delay |-> delay]

---------------------------------------------------------------------------
(* xliff_translate_google.py: the markup reconstructor                     *)

\* index of the first child with the tag, 0 when there is none (tu.find)
FirstIndex(kids, tag) ==
    IF \E i \in 1..Len(kids) : kids[i].tag = tag
    THEN CHOOSE i \in 1..Len(kids) :
            /\ kids[i].tag = tag
            /\ \A j \in 1..(i - 1) : kids[j].tag # tag
    ELSE 0

\* tu.find(tag), Optional
Find(tu, tag) ==
    IF FirstIndex(tu.kids, tag) = 0 THEN None
    ELSE Some(tu.kids[FirstIndex(tu.kids, tag)])

\* list.remove of the element at position i (1-based)
RemoveAt(kids, i) == SubSeq(kids, 1, i - 1) \o SubSeq(kids, i + 1, Len(kids))

\* list.insert(at, x), at 0-based; Python clamps at to the list's length
InsertAt(kids, at, x) ==
    LET a == IF at > Len(kids) THEN Len(kids) ELSE at
    IN SubSeq(kids, 1, a) \o <<x>> \o SubSeq(kids, a + 1, Len(kids))

\* the text written into one node: glossary, prefix and suffix, whitespace
Decorated(o, n, translated) ==
    n.lead \o o.prefix_target \o _apply_glossary(translated, o.glossary)
           \o o.suffix_target \o n.trail

\* the loop over zip(nodes, translated_texts)
RECURSIVE WriteBack(_, _, _, _)
WriteBack(subtree, nodes, translated_texts, o) ==
    IF nodes = <<>> \/ translated_texts = <<>> THEN subtree
    ELSE WriteBack(
            _set_node_text(subtree, Head(nodes).node, Head(nodes).which,
                           Decorated(o, Head(nodes), Head(translated_texts))),
            Tail(nodes), Tail(translated_texts), o)

\* the insert position as it would be with the target appended at the end
InsertIndexAtEnd(children) == Len(children)

\* src_index + 1: src_index is the 0-based place of source_elem among the
\* children left after the old target is removed (0 when it is not found).
\* source_elem is the unit's first source child, and stays the first one.
InsertIndex(children) ==
    (IF FirstIndex(children, "source") = 0 THEN 0
     ELSE FirstIndex(children, "source") - 1) + 1

\* the children after `tu.remove(existing_target)`
WithoutExistingTarget(kids) ==
    IF FirstIndex(kids, "target") = 0 THEN kids
    ELSE RemoveAt(kids, FirstIndex(kids, "target"))

\* copy.deepcopy(source_elem) with the tag set to target
TargetCopy(source_elem) == [source_elem EXCEPT !.tag = "target"]

\* _replace_target_with_preserved_markup: the unit after the call
_replace_target_with_preserved_markup(tu, translated_texts, o) ==
    LET source_elem == tu.kids[FirstIndex(tu.kids, "source")]
        target_subtree == TargetCopy(source_elem)
        nodes == _collect_text_nodes(target_subtree)
        rebuilt == WriteBack(target_subtree, nodes, translated_texts, o)
        children == WithoutExistingTarget(tu.kids)
    IN [tu EXCEPT !.kids = InsertAt(children, InsertIndex(children), rebuilt)]

---------------------------------------------------------------------------
(* xliff_translate_google.py: the orchestrator's pieces                    *)

\* tu.get("id") or f"row-{i+1}", i the 0-based index among all trans-units
UnitId(tu, i) ==
    IF tu.id # None /\ tu.id[1] # "" THEN tu.id[1] ELSE "row-" \o ToString(i + 1)

\* tus_for_progress: the units that have a source child, in document order
RECURSIVE TusFrom(_, _)
TusFrom(units, i) ==
    IF i > Len(units) THEN <<>>
    ELSE (IF Find(units[i], "source") = None THEN <<>>
          ELSE <<[tu |-> i, unit_id |-> UnitId(units[i], i - 1)]>>)
         \o TusFrom(units, i + 1)

Min(a, b) == IF a <= b THEN a ELSE b

\* [core for (...) in src_nodes]
Cores(src_nodes) == [i \in 1..Len(src_nodes) |-> src_nodes[i].core]

\* batch_node_maps of the batch tus_for_progress[start:end]
NodeMaps(doc, tus, s, e) ==
    [k \in 1..(e - s) |->
        [tu |-> tus[s + k].tu, unit_id |-> tus[s + k].unit_id,
         src_nodes |-> _collect_text_nodes(
             doc.units[tus[s + k].tu].kids[
                 FirstIndex(doc.units[tus[s + k].tu].kids, "source")])]]

\* batch_texts: the cores of every unit of the batch, flattened
BatchTexts(maps) == Concat([k \in 1..Len(maps) |-> Cores(maps[k].src_nodes)])

\* translated_flat[idx: idx + n]; a Python slice clamps to the list
Slice(flat, i, n) == SubSeq(flat, i + 1, Min(i + n, Len(flat)))

\* the SegmentResult of a rebuilt unit, from the joined itertext of its
\* source and of its target
MakeRow(unit_id, src_joined, tgt_joined) ==
    LET src_text == VisibleText(src_joined)
        tgt_text == VisibleText(tgt_joined)
        reasons == IF _looks_untranslated(src_text, tgt_text)
                   THEN <<"Looks untranslated">> ELSE <<>>
    IN [unit_id |-> unit_id, source_text |-> src_text,
        target_text |-> tgt_text, flagged |-> reasons # <<>>,
        flag_reasons |-> reasons]

JoinedOf(elem) == IF elem = None THEN <<>> ELSE IterText(elem[1])

\* file_elem.set("target-language", ...) when the option is set
WithTargetLanguage(doc, o) ==
    IF o.set_file_target_language # None /\ o.set_file_target_language[1] # ""
    THEN [doc EXCEPT !.target_language = o.set_file_target_language]
    ELSE doc

\* ET.tostring(root, encoding="utf-8", xml_declaration=True): the bytes are
\* kept as the declaration and the tree they serialise
ToBytes(doc) == [xml_declaration |-> TRUE, encoding |-> "utf-8", tree |-> doc]


---------------------------------------------------------------------------
(* app.py: the QA classifier                                               *)

\* thresholds of qa_flags and of the identifier patterns
ShortLen == 3
RatioMinLen == 12
TokenMinLen == 12
HexMinLen == 12

Letters == Range(Lowers) \cup Range(Uppers)

\* norm_text
norm_text(s) == Lower(CollapseWs(Strip(s)))

IsDigits(s) == s # <<>> /\ \A i \in 1..Len(s) : s[i] \in Digits

\* \d+(\.\d+)?
IsNumber(s) ==
    \/ IsDigits(s)
    \/ \E i \in 1..Len(s) :
          /\ s[i] = "."
          /\ IsDigits(SubSeq(s, 1, i - 1))
          /\ IsDigits(SubSeq(s, i + 1, Len(s)))

\* \d+(\.\d+)?%?
IsPercent(s) ==
    \/ IsNumber(s)
    \/ s # <<>> /\ s[Len(s)] = "%" /\ IsNumber(SubSeq(s, 1, Len(s) - 1))

\* \$?\d+(\.\d+)?[KMB]? with IGNORECASE
IsAmount(s) ==
    \E d \in {0, 1}, k \in {0, 1} :
        /\ Len(s) >= d + k
        /\ d = 1 => s[1] = "$"
        /\ k = 1 => LowerChar(s[Len(s)]) \in {"k", "m", "b"}
        /\ IsNumber(SubSeq(s, 1 + d, Len(s) - k))

\* (up to\s*)?\$?\d+(\.\d+)?[KMB]? with IGNORECASE
IsUpToAmount(s) ==
    \/ IsAmount(s)
    \/ /\ Len(s) >= 5
       /\ Lower(SubSeq(s, 1, 5)) = <<"u", "p", " ", "t", "o">>
       /\ IsAmount(LStrip(SubSeq(s, 6, Len(s))))

\* looks_like_id_or_token
looks_like_id_or_token(s) ==
    LET s2 == Strip(s)
    IN \/ s2 = <<>>
       \/ Contains(s2, <<"i","t","e","m","s","|","i","d",":">>)
       \/ Contains(s2, <<"a","n","s","w","e","r","s","|","i","d",":">>)
       \/ /\ Len(s2) >= 2 /\ SubSeq(s2, 1, 2) = <<"c", "m">>
          /\ Len(s2) >= TokenMinLen
          /\ \A i \in 1..Len(s2) : s2[i] \in Letters \cup Digits
       \/ /\ Len(s2) >= HexMinLen
          /\ \A i \in 1..Len(s2) :
                LowerChar(s2[i]) \in Digits \cup {"a", "b", "c", "d", "e", "f"}

\* looks_like_numberish
looks_like_numberish(s) ==
    LET s2 == Strip(s)
    IN s2 = <<>> \/ IsPercent(s2) \/ IsAmount(s2) \/ IsUpToAmount(s2)

\* the lambda of the "Non-linguistic" column
NonLinguistic(s) ==
    looks_like_id_or_token(s) \/ looks_like_numberish(s)
        \/ Len(Strip(s)) <= ShortLen

\* the "Looks untranslated (linguistic)" column as it would be without the
\* exemption of non-linguistic sources
UntranslatedAny(backend, non_linguistic) == backend

\* the "Looks untranslated (linguistic)" column
UntranslatedLinguistic(backend, non_linguistic) == backend /\ ~non_linguistic

\* the "Ratio flag" column as it would be with only the source's length
\* held against the threshold
RatioFlagSourceOnly(src_len, tgt_len) ==
    /\ src_len >= RatioMinLen
    /\ (100 * tgt_len < 45 * src_len \/ 10 * tgt_len > 22 * src_len)

\* the "Ratio flag" column.  The ratio tgt_len / src_len is compared with
\* 0.45 and 2.2 exactly: t / s < 45 / 100 and t / s > 22 / 10.
RatioFlag(src_len, tgt_len) ==
    /\ src_len >= RatioMinLen
    /\ tgt_len >= RatioMinLen
    /\ (100 * tgt_len < 45 * src_len \/ 10 * tgt_len > 22 * src_len)

\* the "Flagged" column
Flagged(untranslated_linguistic, empty_target, ratio_flag) ==
    untranslated_linguistic \/ empty_target \/ ratio_flag

\* build_reasons; the ratio reason keeps the ratio in place of its text
build_reasons(r) ==
    (IF r.LooksUntranslatedLinguistic THEN <<"Looks untranslated">> ELSE <<>>)
    \o (IF r.EmptySource THEN <<"Empty source">> ELSE <<>>)
    \o (IF r.EmptyTarget THEN <<"Empty target">> ELSE <<>>)
    \o (IF r.RatioFlag THEN <<"Length ratio">> ELSE <<>>)

\* qa_flags, one row: row has ID, Source, Target, Flagged_backend
qa_flags_row(row) ==
    LET src_len == IF Len(row.Source) < 1 THEN 1 ELSE Len(row.Source)
        tgt_len == Len(row.Target)
        non_linguistic == NonLinguistic(row.Source)
        empty_target == Strip(row.Target) = <<>>
        ratio_flag == RatioFlag(src_len, tgt_len)
        lul == UntranslatedLinguistic(row.Flagged_backend, non_linguistic)
        r == [ID |-> row.ID, Source |-> row.Source, Target |-> row.Target,
              Flagged_backend |-> row.Flagged_backend,
              EmptySource |-> Strip(row.Source) = <<>>,
              EmptyTarget |-> empty_target,
              Changed |-> norm_text(row.Source) # norm_text(row.Target),
              NonLinguistic |-> non_linguistic,
              LengthRatio |-> <<tgt_len, src_len>>,
              RatioFlag |-> ratio_flag,
              LooksUntranslatedLinguistic |-> lul,
              Flagged |-> Flagged(lul, empty_target, ratio_flag)]
    IN [ID |-> r.ID, Source |-> r.Source, Target |-> r.Target,
        Flagged_backend |-> r.Flagged_backend, EmptySource |-> r.EmptySource,
        EmptyTarget |-> r.EmptyTarget, Changed |-> r.Changed,
        NonLinguistic |-> r.NonLinguistic, LengthRatio |-> r.LengthRatio,
        RatioFlag |-> r.RatioFlag,
        LooksUntranslatedLinguistic |-> r.LooksUntranslatedLinguistic,
        Flagged |-> r.Flagged, Reasons |-> build_reasons(r)]

\* qa_flags over the table
qa_flags(table) == [i \in 1..Len(table) |-> qa_flags_row(table[i])]

\* the table the app builds from the results before it calls qa_flags
AppTable(rs) ==
    [i \in 1..Len(rs) |->
        [ID |-> rs[i].unit_id, Source |-> rs[i].source_text,
         Target |-> rs[i].target_text, Flagged_backend |-> rs[i].flagged]]


---------------------------------------------------------------------------
(* Bounds and the inputs the model draws from                              *)

MaxUnits == 3       \* units per document
MaxBatch == 3       \* largest batch_size
MaxRetries == 2     \* largest opts.retries
MaxFaults == 3      \* backend failures per run
MaxUnitKids == 3    \* children of a unit besides its source

\* TranslationOptions.retry_backoff_s, in hundredths of a second
DefaultBackoff == 35

Elem(tag, attrib, text, tail, kids) ==
    [tag |-> tag, attrib |-> attrib, text |-> text, tail |-> tail, kids |-> kids]

Unit(id, kids) == [id |-> id, kids |-> kids]

Doc(units) == [target_language |-> Some("en-us"), units |-> units]

Options(prefix, suffix, glossary, retries, fallback, mark, lang) ==
    [target_lang |-> "fr", source_lang |-> Some("en"),
     set_file_target_language |-> lang,
     prefix_target |-> prefix, suffix_target |-> suffix,
     glossary |-> glossary, retries |-> retries,
     retry_backoff_s |-> DefaultBackoff,
     fallback_to_source_on_error |-> fallback,
     mark_fallback_in_target |-> mark]

\* glossaries, as parse_glossary builds them: no empty key
Glossary1 == Some(<< <<<<"x">>, <<"R">>>>, <<<<"x", "y">>, <<"Q">>>> >>)
Glossary2 == Some(<< <<<<"y">>, <<"x">>>>, <<<<"x">>, <<"y", " ">>>> >>)
\* a multi-word key whose value holds a shorter key: "x y" => "Q x", "x" => "R"
Glossary3 == Some(<< <<<<"x">>, <<"R">>>>,
                     <<<<"x", " ", "y">>, <<"Q", " ", "x">>>> >>)

\* the text and tail slots a source is built from
Texts == {None, Some(<<>>), Some(<<" ">>), Some(<<"a">>), Some(<<"\n", "b", " ">>)}
FewTexts == {None, Some(<<"\n", " ">>), Some(<<"a", " ", "b">>)}

MarkupSources ==
    {Elem("source", "", t, None, <<>>) : t \in Texts}
    \cup {Elem("source", "", t[1], Some(<<"\n">>),
               <<Elem("g", "id=1", t[2], t[3], <<>>)>>) :
            t \in Texts \X Texts \X Texts}
    \cup {Elem("source", "", None, None,
               <<Elem("g", "id=1", t[1], None,
                      <<Elem("x", "id=2", t[2], t[3], <<>>)>>)>>) :
            t \in FewTexts \X FewTexts \X FewTexts}
    \cup {Elem("source", "", t[1], None,
               <<Elem("g", "id=1", t[2], None, <<>>),
                 Elem("x", "id=2", None, t[3], <<>>)>>) :
            t \in FewTexts \X FewTexts \X FewTexts}

MarkupOptions ==
    {Options(<<>>, <<>>, None, 0, TRUE, FALSE, None),
     Options(<<"P">>, <<"S">>, None, 0, TRUE, TRUE, None),
     Options(<<"P">>, <<>>, Glossary1, 0, TRUE, FALSE, None),
     Options(<<>>, <<"S">>, Glossary2, 0, FALSE, FALSE, None),
     Options(<<>>, <<>>, Glossary3, 0, TRUE, FALSE, None)}

\* the children of a unit: one source among notes and old targets
OldTarget(n) == Elem("target", n, Some(<<"o", "l", "d">>), Some(<<"\n">>), <<>>)
Note(n) == Elem("note", n, Some(<<"n">>), None, <<>>)
LayoutSource == Elem("source", "", Some(<<" ", "a">>), None,
                     <<Elem("g", "id=1", Some(<<"b">>), None, <<>>)>>)

LayoutKids(tags) ==
    [i \in 1..Len(tags) |->
        CASE tags[i] = "source" -> LayoutSource
          [] tags[i] = "target" -> OldTarget(ToString(i))
          [] OTHER -> Note(ToString(i))]

RECURSIVE TagSeqs(_)
TagSeqs(n) ==
    IF n = 0 THEN {<<>>}
    ELSE TagSeqs(n - 1)
         \cup {Append(q, t) : q \in TagSeqs(n - 1), t \in {"target", "note"}}

Count(q, t) == Cardinality({i \in 1..Len(q) : q[i] = t})

\* every placement of one source among at most MaxUnitKids notes and targets
Layouts ==
    {SubSeq(q, 1, i) \o <<"source">> \o SubSeq(q, i + 1, Len(q)) :
        <<q, i>> \in {<<q, i>> \in TagSeqs(MaxUnitKids) \X (0..MaxUnitKids) :
                          i <= Len(q) /\ Count(q, "target") <= 2}}

\* the units batches are made of
BatchUnits ==
    {Unit(Some("u1"), <<Elem("source", "", Some(<<"a">>), None, <<>>)>>),
     Unit(None, <<Note("1"),
                  Elem("source", "", Some(<<" ", "b">>), None,
                       <<Elem("g", "id=1", None, Some(<<"a", "b">>), <<>>)>>)>>),
     Unit(Some(""), <<OldTarget("1"),
                      Elem("source", "", Some(<<"\n">>), None, <<>>)>>),
     Unit(Some("u4"), <<Note("1")>>)}

RECURSIVE SeqsUpTo(_, _)
SeqsUpTo(S, n) ==
    IF n = 0 THEN {<<>>}
    ELSE SeqsUpTo(S, n - 1)
         \cup {Append(q, x) : q \in {r \in SeqsUpTo(S, n - 1) : Len(r) = n - 1},
                              x \in S}

BatchOptions ==
    {Options(<<>>, <<>>, None, r, f, FALSE, l) :
        r \in {0, MaxRetries}, f \in BOOLEAN, l \in {None, Some("fr-fr")}}

---------------------------------------------------------------------------
(* translate_xliff_bytes_google as a state machine                         *)

\* the state after lines 211-222: the document is parsed, the units with a
\* source are listed, results is empty
Entered(doc, o, bs, cb, faults) ==
    /\ xliff_bytes = doc
    /\ opts = o
    /\ batch_size = bs
    /\ has_callback = cb
    /\ faults_left = faults
    /\ root = doc
    /\ tus_for_progress = TusFrom(doc.units, 1)
    /\ pc = "loop"
    /\ start = 0
    /\ end = 0
    /\ batch_node_maps = <<>>
    /\ batch_texts = <<>>
    /\ out = <<>>
    /\ failed = 0
    /\ used = <<>>
    /\ attempt = 0
    /\ events = <<>>
    /\ translated_flat = <<>>
    /\ failed_count = 0
    /\ idx = 0
    /\ bi = 0
    /\ results = <<>>
    /\ progress_calls = <<>>
    /\ returned = None
    /\ qa_in = None
    /\ df = None

InitMarkup ==
    \E src \in MarkupSources, o \in MarkupOptions :
        Entered(Doc(<<Unit(Some("u1"), <<src>>)>>), o, 1, TRUE, MaxFaults)

InitLayout ==
    \E tags \in Layouts :
        Entered(Doc(<<Unit(Some("u1"), LayoutKids(tags))>>),
                Options(<<"P">>, <<>>, None, 0, TRUE, FALSE, None), 1, TRUE,
                MaxFaults)

InitBatch ==
    \E units \in SeqsUpTo(BatchUnits, MaxUnits), o \in BatchOptions,
       bs \in 1..MaxBatch, cb \in BOOLEAN :
        Entered(Doc(units), o, bs, cb, MaxFaults)

\* one hundred units in batches of forty, with a backend that never fails
InitHundred ==
    Entered(Doc([i \in 1..100 |->
                    Unit(None, <<Elem("source", "", Some(<<"a">>), None, <<>>)>>)]),
            Options(<<>>, <<>>, None, 0, TRUE, FALSE, None), 40, TRUE, 0)

Init == InitMarkup \/ InitLayout \/ InitBatch \/ InitHundred

total_units == Len(tus_for_progress)

\* lines 224-235: the batch's units are walked and their cores flattened
BatchCollect ==
    /\ pc = "loop"
    /\ start < total_units
    /\ LET e == Min(start + batch_size, total_units)
           maps == NodeMaps(root, tus_for_progress, start, e)
       IN /\ end' = e
          /\ batch_node_maps' = maps
          /\ batch_texts' = BatchTexts(maps)
    /\ out' = <<>>
    /\ failed' = 0
    /\ used' = <<>>
    /\ attempt' = 0
    /\ events' = <<>>
    /\ pc' = "translate"
    /\ UNCHANGED <<xliff_bytes, opts, batch_size, has_callback, faults_left,
                   root, tus_for_progress, start, translated_flat,
                   failed_count, idx, bi, results, progress_calls, returned,
                   qa_in, df>>

\* the string _safe_translate_one is called with next
Pending == pc = "translate" /\ Len(out) < Len(batch_texts)
text == batch_texts[Len(out) + 1]

\* the events of the current string before this attempt
EventsSoFar == IF attempt = 0 THEN <<>> ELSE events

AdapterFrame ==
    UNCHANGED <<xliff_bytes, opts, batch_size, has_callback, root,
                tus_for_progress, start, end, batch_node_maps, batch_texts,
                translated_flat, failed_count, idx, bi, results,
                progress_calls, returned, qa_in, df>>

\* line 120-121: a string that trims to empty is answered "" with no call
SkipEmpty ==
    /\ Pending
    /\ SkipsBackend(text)
    /\ out' = Append(out, <<>>)
    /\ used' = Append(used, FALSE)
    /\ events' = <<>>
    /\ attempt' = 0
    /\ UNCHANGED <<failed, faults_left, pc>>
    /\ AdapterFrame

\* line 126: the backend answers
AttemptOk ==
    /\ Pending
    /\ ~SkipsBackend(text)
    /\ events' = Append(EventsSoFar, Event("call", attempt, TRUE, 0))
    /\ out' = Append(out, Translate(text))
    /\ used' = Append(used, FALSE)
    /\ attempt' = 0
    /\ UNCHANGED <<failed, faults_left, pc>>
    /\ AdapterFrame

\* lines 127-134: the backend raises and another attempt follows the sleep
AttemptFailRetry ==
    /\ Pending
    /\ ~SkipsBackend(text)
    /\ faults_left > 0
    /\ ShouldSleep(opts, attempt)
    /\ faults_left' = faults_left - 1
    /\ events' = EventsSoFar
                 \o <<Event("call", attempt, FALSE, 0),
                      Event("sleep", attempt, FALSE, BackoffDelay(opts, attempt))>>
    /\ attempt' = attempt + 1
    /\ UNCHANGED <<out, used, failed, pc>>
    /\ AdapterFrame

\* lines 136-140: the last attempt raises and the string falls back
AttemptFailFallback ==
    /\ Pending
    /\ ~SkipsBackend(text)
    /\ faults_left > 0
    /\ ~ShouldSleep(opts, attempt)
    /\ FallsBack(opts)
    /\ faults_left' = faults_left - 1
    /\ events' = Append(EventsSoFar, Event("call", attempt, FALSE, 0))
    /\ out' = Append(out, FallbackText(opts, text))
    /\ used' = Append(used, TRUE)
    /\ failed' = failed + 1
    /\ attempt' = 0
    /\ UNCHANGED pc
    /\ AdapterFrame

\* lines 142-144: the last attempt raises and the error is re-raised; nothing
\* catches it in translate_texts_deep_safe or translate_xliff_bytes_google
AttemptFailRaise ==
    /\ Pending
    /\ ~SkipsBackend(text)
    /\ faults_left > 0
    /\ ~ShouldSleep(opts, attempt)
    /\ ~FallsBack(opts)
    /\ faults_left' = faults_left - 1
    /\ events' = Append(EventsSoFar, Event("call", attempt, FALSE, 0))
    /\ pc' = "raised"
    /\ UNCHANGED <<out, used, failed, attempt>>
    /\ AdapterFrame

\* line 168 and 237-244: the adapter returns; the offset starts at 0
AdapterReturn ==
    /\ pc = "translate"
    /\ Len(out) = Len(batch_texts)
    /\ translated_flat' = out
    /\ failed_count' = failed
    /\ idx' = 0
    /\ bi' = 0
    /\ pc' = "rebuild"
    /\ UNCHANGED <<xliff_bytes, opts, batch_size, has_callback, faults_left,
                   root, tus_for_progress, start, end, batch_node_maps,
                   batch_texts, out, failed, used, attempt, events, results,
                   progress_calls, returned, qa_in, df>>

\* the offset as it would be if it advanced by one per unit
NextOffsetByOne(i, n) == i + 1

\* the offset after a unit with n runs
NextOffset(i, n) == i + n

\* lines 245-276: one unit of the batch is rebuilt and its result appended
RebuildUnit ==
    /\ pc = "rebuild"
    /\ bi < Len(batch_node_maps)
    /\ LET m == batch_node_maps[bi + 1]
           n == Len(m.src_nodes)
           translated_slice == Slice(translated_flat, idx, n)
           tu == _replace_target_with_preserved_markup(
                     root.units[m.tu], translated_slice, opts)
       IN /\ idx' = NextOffset(idx, n)
          /\ root' = [root EXCEPT !.units[m.tu] = tu]
          /\ results' = Append(results,
                 MakeRow(m.unit_id, JoinedOf(Find(tu, "source")),
                         JoinedOf(Find(tu, "target"))))
    /\ bi' = bi + 1
    /\ UNCHANGED <<xliff_bytes, opts, batch_size, has_callback, faults_left,
                   tus_for_progress, pc, start, end, batch_node_maps,
                   batch_texts, out, failed, used, attempt, events,
                   translated_flat, failed_count, progress_calls, returned,
                   qa_in, df>>

\* the callback's arguments as they would be with the batch's start
CallbackArgsFromStart == <<start, total_units>>

\* the arguments of progress_callback(end, total_units)
CallbackArgs == <<end, total_units>>

LoopFrame ==
    UNCHANGED <<xliff_bytes, opts, batch_size, has_callback, faults_left,
                root, tus_for_progress, end, batch_node_maps, batch_texts,
                out, failed, used, attempt, events, translated_flat,
                failed_count, idx, bi, results, returned, qa_in, df>>

\* lines 278-279, then the next start of range(0, total_units, batch_size)
ProgressCallback ==
    /\ pc = "rebuild"
    /\ bi = Len(batch_node_maps)
    /\ has_callback
    /\ progress_calls' = Append(progress_calls, CallbackArgs)
    /\ start' = start + batch_size
    /\ pc' = "loop"
    /\ LoopFrame

\* line 278 with no callback given
NoCallback ==
    /\ pc = "rebuild"
    /\ bi = Len(batch_node_maps)
    /\ ~has_callback
    /\ start' = start + batch_size
    /\ pc' = "loop"
    /\ UNCHANGED progress_calls
    /\ LoopFrame

\* lines 281-287: the loop is over; the tree is serialised and returned
Finish ==
    /\ pc = "loop"
    /\ start >= total_units
    /\ root' = WithTargetLanguage(root, opts)
    /\ returned' = Some([out_bytes |-> ToBytes(root'), results |-> results])
    /\ pc' = "done"
    /\ UNCHANGED <<xliff_bytes, opts, batch_size, has_callback, faults_left,
                   tus_for_progress, start, end, batch_node_maps, batch_texts,
                   out, failed, used, attempt, events, translated_flat,
                   failed_count, idx, bi, results, progress_calls, qa_in, df>>

QAFrame ==
    UNCHANGED <<xliff_bytes, opts, batch_size, has_callback, faults_left,
                root, tus_for_progress, start, end, batch_node_maps,
                batch_texts, out, failed, used, attempt, events,
                translated_flat, failed_count, idx, bi, progress_calls,
                returned, qa_in>>

\* app.py lines 251-256: the results become a table and qa_flags enriches it
AppQA ==
    /\ pc = "done"
    /\ results # <<>>
    /\ df' = Some(qa_flags(AppTable(results)))
    /\ pc' = "qa_done"
    /\ UNCHANGED results
    /\ QAFrame

\* app.py line 252 with no result row: the table has no "flagged" column
\* and the lookup raises
AppQANoRows ==
    /\ pc = "done"
    /\ results = <<>>
    /\ pc' = "app_error"
    /\ UNCHANGED <<results, df>>
    /\ QAFrame

Next ==
    \/ BatchCollect
    \/ SkipEmpty
    \/ AttemptOk
    \/ AttemptFailRetry
    \/ AttemptFailFallback
    \/ AttemptFailRaise
    \/ AdapterReturn
    \/ RebuildUnit
    \/ ProgressCallback
    \/ NoCallback
    \/ Finish
    \/ AppQA
    \/ AppQANoRows

Spec == Init /\ [][Next]_vars


---------------------------------------------------------------------------
(* What the properties below speak about                                   *)

\* a slot that is absent, empty or whitespace only
Blank(slot) == slot = None \/ \A i \in 1..Len(slot[1]) : slot[1][i] \in WS

BlankText(t) == \A i \in 1..Len(t) : t[i] \in WS

\* the longest whitespace prefix of v
LeadWs(v) ==
    SubSeq(v, 1, CHOOSE n \in 0..Len(v) :
                    /\ \A i \in 1..n : v[i] \in WS
                    /\ n = Len(v) \/ v[n + 1] \notin WS)

\* the longest whitespace suffix of v that does not overlap LeadWs(v)
TrailWs(v) ==
    SubSeq(v, (CHOOSE n \in Len(LeadWs(v))..Len(v) :
                    /\ \A i \in (n + 1)..Len(v) : v[i] \in WS
                    /\ n = Len(LeadWs(v)) \/ v[n] \notin WS) + 1, Len(v))

\* v without LeadWs(v) and TrailWs(v)
CoreOf(v) == SubSeq(v, Len(LeadWs(v)) + 1, Len(v) - Len(TrailWs(v)))

RECURSIVE PathsOf(_)
PathsOf(elem) ==
    {<<>>} \cup UNION {{<<i>> \o p : p \in PathsOf(elem.kids[i])} :
                          i \in 1..Len(elem.kids)}

RECURSIVE NodeAt(_, _)
NodeAt(elem, path) ==
    IF path = <<>> THEN elem ELSE NodeAt(elem.kids[Head(path)], Tail(path))

\* the text slots below a subtree's root: every text, and every tail but the
\* root's own
Slots(elem) ==
    {<<p, "text">> : p \in PathsOf(elem)}
    \cup {<<p, "tail">> : p \in PathsOf(elem) \ {<<>>}}

SlotValue(elem, sl) ==
    IF sl[2] = "text" THEN NodeAt(elem, sl[1]).text ELSE NodeAt(elem, sl[1]).tail

\* the units rebuilt so far: a result row is appended with each
Processed == {tus_for_progress[k].tu : k \in 1..Len(results)}

SourceOf(tu) == tu.kids[FirstIndex(tu.kids, "source")]

\* the child that follows the source
AfterSource(tu) == tu.kids[FirstIndex(tu.kids, "source") + 1]

\* what the adapter may answer for a core
Answers(core) ==
    IF BlankText(core) THEN {<<>>}
    ELSE {Translate(core)}
         \cup (IF opts.fallback_to_source_on_error
               THEN {IF opts.mark_fallback_in_target
                     THEN <<"[", "[">> \o core \o <<"]", "]">> ELSE core}
               ELSE {})

---------------------------------------------------------------------------
(* C1  The walker emits no run whose core is empty: a slot that is absent, *)
(* empty or whitespace only gives no run and no string for the adapter,    *)
(* and its text in the rebuilt target is the source's text.                *)
C1_EmptyCoreNeverEmitted ==
    /\ \A k \in 1..Len(batch_node_maps) :
          \A j \in 1..Len(batch_node_maps[k].src_nodes) :
              batch_node_maps[k].src_nodes[j].core # <<>>
    /\ \A i \in 1..Len(batch_texts) : batch_texts[i] # <<>>
    /\ \A u \in Processed :
          \A sl \in Slots(SourceOf(root.units[u])) :
              Blank(SlotValue(SourceOf(root.units[u]), sl))
                  => SlotValue(AfterSource(root.units[u]), sl)
                        = SlotValue(SourceOf(root.units[u]), sl)

(* C2  A rebuilt target has the element structure of its source (tags      *)
(* below the root, attributes, child order); every slot the walker takes a *)
(* run from holds lead + prefix + glossary(answer for its core) + suffix + *)
(* trail with the source slot's whitespace, every other slot is as in the  *)
(* source; and the source subtree is as it was in the input.               *)
SlotRebuilt(src, tgt, sl) ==
    LET v == SlotValue(src, sl)
    IN IF v = None \/ v = Some(<<>>)
       THEN SlotValue(tgt, sl) = v
       ELSE \E a \in Answers(CoreOf(v[1])) :
               SlotValue(tgt, sl) =
                   Some(LeadWs(v[1]) \o opts.prefix_target
                        \o _apply_glossary(a, opts.glossary)
                        \o opts.suffix_target \o TrailWs(v[1]))

SameStructure(src, tgt) ==
    /\ PathsOf(src) = PathsOf(tgt)
    /\ \A p \in PathsOf(src) :
          /\ NodeAt(src, p).attrib = NodeAt(tgt, p).attrib
          /\ Len(NodeAt(src, p).kids) = Len(NodeAt(tgt, p).kids)
          /\ p # <<>> => NodeAt(src, p).tag = NodeAt(tgt, p).tag

C2_OnlyTextAltered ==
    \A u \in Processed :
        LET src == SourceOf(root.units[u])
            tgt == AfterSource(root.units[u])
        IN /\ src = SourceOf(xliff_bytes.units[u])
           /\ tgt.tag = "target"
           /\ tgt.tail = src.tail
           /\ SameStructure(src, tgt)
           /\ \A sl \in Slots(src) : SlotRebuilt(src, tgt, sl)

\* a unit is rebuilt whose source has whitespace around a core, under a
\* prefix, below a nested element
C2_Witness ==
    \E u \in Processed :
        /\ opts.prefix_target # <<>>
        /\ \E sl \in Slots(SourceOf(root.units[u])) :
              LET v == SlotValue(SourceOf(root.units[u]), sl)
              IN /\ Len(sl[1]) >= 1
                 /\ v # None
                 /\ LeadWs(v[1]) # <<>>
                 /\ TrailWs(v[1]) # <<>>
                 /\ SlotValue(AfterSource(root.units[u]), sl) # v

(* C3  A processed unit that came with a source and at most one target has *)
(* exactly one target child, right after the source, and its other         *)
(* children keep their relative order.                                     *)
NotTarget(e) == e.tag # "target"

TagsOf(kids) == [i \in 1..Len(kids) |-> kids[i].tag]

C3_OneTargetAfterSource ==
    \A u \in Processed :
        Count(TagsOf(xliff_bytes.units[u].kids), "target") <= 1
        => /\ Count(TagsOf(root.units[u].kids), "target") = 1
           /\ FirstIndex(root.units[u].kids, "source") < Len(root.units[u].kids)
           /\ AfterSource(root.units[u]).tag = "target"
           /\ SelectSeq(root.units[u].kids, NotTarget)
                = SelectSeq(xliff_bytes.units[u].kids, NotTarget)

\* a unit is processed that had its old target before the source and a note
\* after it
C3_Witness ==
    \E u \in Processed :
        LET old == xliff_bytes.units[u].kids
        IN /\ Count(TagsOf(old), "target") = 1
           /\ FirstIndex(old, "target") < FirstIndex(old, "source")
           /\ old[Len(old)].tag = "note"
           /\ FirstIndex(old, "source") < Len(old)
           /\ AfterSource(root.units[u]).tag = "target"

(* C4  When the adapter returns, its list is as long as the list it was    *)
(* given and entry i follows from text i alone: empty if the text trims to *)
(* empty, the backend's translation if an attempt succeeded, else the text *)
(* itself or the text in [[ ]] by mark_fallback_in_target; failed_count is *)
(* the number of entries that fell back.                                   *)
C4_AdapterAligned ==
    pc = "rebuild" =>
        /\ Len(translated_flat) = Len(batch_texts)
        /\ Len(used) = Len(batch_texts)
        /\ \A i \in 1..Len(batch_texts) :
              translated_flat[i] =
                  IF BlankText(batch_texts[i]) THEN <<>>
                  ELSE IF ~used[i] THEN Translate(batch_texts[i])
                  ELSE IF opts.mark_fallback_in_target
                       THEN <<"[", "[">> \o batch_texts[i] \o <<"]", "]">>
                       ELSE batch_texts[i]
        /\ \A i \in 1..Len(batch_texts) :
              used[i] => opts.fallback_to_source_on_error
                         /\ ~BlankText(batch_texts[i])
        /\ failed_count = Cardinality({i \in 1..Len(used) : used[i]})

\* the adapter returns a list with a marked fallback, a translation and an
\* empty answer in it
C4_Witness ==
    /\ pc = "rebuild"
    /\ opts.mark_fallback_in_target
    /\ \E i, j, k \in 1..Len(batch_texts) :
          /\ used[i]
          /\ ~used[j] /\ ~BlankText(batch_texts[j])
          /\ BlankText(batch_texts[k])

(* C5  The backend calls and sleeps for one string: none if the string     *)
(* trims to empty; else attempt 0, and after each failed attempt i <       *)
(* retries a sleep of retry_backoff_s * (i + 1) and attempt i + 1; nothing *)
(* follows a successful attempt, there are at most retries + 1 attempts,   *)
(* and no sleep follows the last one.                                      *)
LastDone == batch_texts[Len(out)]

C5_RetrySequence ==
    /\ \A p \in 1..Len(events) :
          IF p % 2 = 1
          THEN /\ events[p].kind = "call"
               /\ events[p].attempt = (p - 1) \div 2
               /\ events[p].attempt <= opts.retries
               /\ p < Len(events) => ~events[p].ok
          ELSE /\ events[p].kind = "sleep"
               /\ events[p].delay = opts.retry_backoff_s * (p \div 2)
               /\ events[p - 1].attempt < opts.retries
    /\ Len(events) <= 2 * opts.retries + 1
    \* a sleep is followed by the next attempt: the string is still pending
    /\ (events # <<>> /\ events[Len(events)].kind = "sleep")
          => Pending /\ attempt = Len(events) \div 2
    \* the string just answered: no call for a blank one, and for any other
    \* a last call that succeeded unless all retries + 1 calls failed
    /\ (pc = "translate" /\ attempt = 0 /\ out # <<>>)
          => IF BlankText(LastDone) THEN events = <<>>
             ELSE /\ events # <<>>
                  /\ events[Len(events)].ok = ~used[Len(out)]
                  /\ used[Len(out)] => Len(events) = 2 * opts.retries + 1
    /\ pc = "raised" => Len(events) = 2 * opts.retries + 1

\* a string is answered on its last permitted attempt, after two sleeps
C5_Witness ==
    /\ pc = "translate"
    /\ opts.retries = 2
    /\ Len(events) = 5
    /\ events[5].ok
    /\ events[2].delay = opts.retry_backoff_s
    /\ events[4].delay = 2 * opts.retry_backoff_s

(* C6  With fallback_to_source_on_error false, a string that fails on all  *)
(* retries + 1 attempts makes the run raise: no string falls back, nothing *)
(* further is translated, rebuilt or reported, the progress callback is    *)
(* not invoked for that batch, and neither bytes nor rows are returned.    *)
C6_RaisedState ==
    /\ ~opts.fallback_to_source_on_error
          => failed = 0 /\ \A i \in 1..Len(used) : ~used[i]
    /\ pc = "raised" =>
          /\ ~opts.fallback_to_source_on_error
          /\ \A p \in 1..Len(events) : ~events[p].ok
          /\ Cardinality({p \in 1..Len(events) : events[p].kind = "call"})
                = opts.retries + 1
          /\ returned = None
          /\ df = None
          /\ Len(results) = start
          /\ \A c \in 1..Len(progress_calls) : progress_calls[c][1] <= start
          /\ Len(progress_calls) <= start \div batch_size

C6_ErrorPropagates ==
    /\ []C6_RaisedState
    /\ [][pc = "raised" => UNCHANGED vars]_vars

\* the run raises in its second batch, after the first was rebuilt
C6_Witness ==
    /\ pc = "raised"
    /\ start > 0
    /\ results # <<>>
    /\ out # <<>>

(* C7  Each unit's reconstructor is handed the answers for its own runs,   *)
(* in run order, whatever the batch size; with a backend that never fails  *)
(* the returned document and rows are those of rebuilding each unit on its *)
(* own, one row per unit with a source, in document order.                 *)
OwnAnswers(src) ==
    LET runs == _collect_text_nodes(src)
    IN [j \in 1..Len(runs) |->
           IF BlankText(runs[j].core) THEN <<>> ELSE Translate(runs[j].core)]

UnitAlone(tu) ==
    IF FirstIndex(tu.kids, "source") = 0 THEN tu
    ELSE _replace_target_with_preserved_markup(tu, OwnAnswers(SourceOf(tu)), opts)

DocAlone ==
    WithTargetLanguage(
        [xliff_bytes EXCEPT
            !.units = [i \in 1..Len(xliff_bytes.units) |->
                          UnitAlone(xliff_bytes.units[i])]], opts)

WithSource == {i \in 1..Len(xliff_bytes.units) :
                  FirstIndex(xliff_bytes.units[i].kids, "source") # 0}

\* the k-th unit that has a source, in document order
NthWithSource(k) ==
    CHOOSE i \in WithSource : Cardinality({j \in WithSource : j <= i}) = k

RowsAlone ==
    [k \in 1..Cardinality(WithSource) |->
        LET i == NthWithSource(k)
        IN MakeRow(IF xliff_bytes.units[i].id \in {None, Some("")}
                   THEN "row-" \o ToString(i) ELSE xliff_bytes.units[i].id[1],
                   IterText(SourceOf(xliff_bytes.units[i])),
                   JoinedOf(Find(UnitAlone(xliff_bytes.units[i]), "target")))]

C7_BatchingIndependent ==
    /\ (pc = "rebuild" /\ bi < Len(batch_node_maps)) =>
          LET m == batch_node_maps[bi + 1]
          IN /\ idx + Len(m.src_nodes) <= Len(translated_flat)
             /\ m.src_nodes = _collect_text_nodes(SourceOf(xliff_bytes.units[m.tu]))
             /\ \A j \in 1..Len(m.src_nodes) :
                   translated_flat[idx + j] \in Answers(m.src_nodes[j].core)
    /\ (pc = "done" /\ faults_left = MaxFaults) =>
          /\ returned[1].out_bytes.tree = DocAlone
          /\ returned[1].results = RowsAlone

\* three units with a source, the first with several runs, are returned
\* from batches of two by a backend that did not fail
C7_Witness ==
    /\ pc = "done"
    /\ faults_left = MaxFaults
    /\ batch_size = 2
    /\ Len(tus_for_progress) = 3
    /\ Len(_collect_text_nodes(SourceOf(xliff_bytes.units[tus_for_progress[1].tu]))) >= 2
    /\ Len(xliff_bytes.units) = 3
    /\ returned[1].out_bytes.tree # xliff_bytes

(* C8  With N units and batch size B the progress callback is invoked      *)
(* ceil(N / B) times, the k-th time with (min(k * B, N), N) and once the   *)
(* batch's units are all rebuilt; the counts increase strictly and the     *)
(* last is N.                                                              *)
CeilDiv(n, b) == (n + b - 1) \div b

Returned == pc \in {"done", "qa_done", "app_error"}

C8_ProgressPerBatch ==
    has_callback =>
        /\ \A k \in 1..Len(progress_calls) :
              progress_calls[k] = <<Min(k * batch_size, total_units), total_units>>
        /\ \A k \in 2..Len(progress_calls) :
              progress_calls[k - 1][1] < progress_calls[k][1]
        /\ Len(progress_calls) <= CeilDiv(total_units, batch_size)
        /\ Returned =>
              /\ Len(progress_calls) = CeilDiv(total_units, batch_size)
              /\ total_units > 0 => progress_calls[Len(progress_calls)][1] = total_units
        \* the rows of exactly the reported units exist when the callback
        \* has run, and at least those later
        /\ progress_calls # <<>> =>
              Len(results) >= progress_calls[Len(progress_calls)][1]
        /\ pc = "loop" =>
              Len(results) = IF progress_calls = <<>> THEN 0
                             ELSE progress_calls[Len(progress_calls)][1]

\* one hundred units in batches of forty: 40, 80, 100
C8_Witness ==
    /\ pc = "done"
    /\ has_callback
    /\ batch_size = 40
    /\ progress_calls = << <<40, 100>>, <<80, 100>>, <<100, 100>> >>

---------------------------------------------------------------------------
(* The QA classifier on its own: rows made from sample texts               *)

SEmpty == <<>>
SSpaces == <<" ", "\n">>
SToken ==
    <<"c", "m", "A", "b", "c", "1", "2", "3", "X", "y", "z", "9", "8", "7">>
SPercent == <<"4", "2", "%">>
SUpTo == <<"u", "p", " ", "t", "o", " ", "$", "3", ".", "5", "K">>
SThanks ==
    <<"T", "h", "a", "n", "k", " ", "y", "o", "u", " ", "f", "o", "r", " ",
      "y", "o", "u", "r", " ", "p", "u", "r", "c", "h", "a", "s", "e">>
SThanksLoose ==
    <<" ", "t", "h", "a", "n", "k", " ", " ", "y", "o", "u", "\n", "f", "o",
      "r", " ", "Y", "O", "U", "R", " ", "p", "u", "r", "c", "h", "a", "s",
      "e", " ">>
SMerci == <<"M", "e", "r", "c", "i">>
SConfirm20 ==
    <<"P", "l", "e", "a", "s", "e", " ", "c", "o", "n", "f", "i", "r", "m",
      " ", "o", "r", "d", "e", "r">>
SContinue8 == <<"C", "o", "n", "t", "i", "n", "u", "e">>
SOk == <<"O", "k">>
SFriday40 ==
    <<"P", "l", "e", "a", "s", "e", " ", "c", "o", "n", "f", "i", "r", "m",
      " ", "y", "o", "u", "r", " ", "o", "r", "d", "e", "r", " ", "b", "e",
      "f", "o", "r", "e", " ", "F", "r", "i", "d", "a", "y", ".">>
SConfirmez12 == <<"C", "o", "n", "f", "i", "r", "m", "e", "z", "-", "l", "e">>
SPasse12 == <<"M", "o", "t", " ", "d", "e", " ", "p", "a", "s", "s", "e">>
SHex == <<"d", "e", "a", "d", "b", "e", "e", "f", "0", "1", "2", "3">>
SItems == <<"i", "t", "e", "m", "s", "|", "i", "d", ":", "4", "2">>
SCmShort == <<"c", "m", "A", "b", "c">>
SVersion == <<"3", ".", "1", "4", ".", "1">>

Samples ==
    {SEmpty, SSpaces, SToken, SPercent, SUpTo,
     SThanks, SThanksLoose, SMerci, SConfirm20, SContinue8,
     SOk, SFriday40, SConfirmez12, SPasse12, SHex,
     SItems, SCmShort, SVersion}

\* nothing of a translation run is in progress
NoRun ==
    /\ xliff_bytes = Doc(<<>>)
    /\ opts = Options(<<>>, <<>>, None, 0, TRUE, FALSE, None)
    /\ batch_size = 1
    /\ has_callback = FALSE
    /\ faults_left = 0
    /\ root = Doc(<<>>)
    /\ tus_for_progress = <<>>
    /\ start = 0
    /\ end = 0
    /\ batch_node_maps = <<>>
    /\ batch_texts = <<>>
    /\ out = <<>>
    /\ failed = 0
    /\ used = <<>>
    /\ attempt = 0
    /\ events = <<>>
    /\ translated_flat = <<>>
    /\ failed_count = 0
    /\ idx = 0
    /\ bi = 0
    /\ progress_calls = <<>>
    /\ returned = None

\* a unit whose source and rebuilt target read as the two sample texts
InitQA ==
    \E s \in Samples, t \in Samples :
        /\ NoRun
        /\ qa_in = Some([source |-> s, target |-> t])
        /\ results = <<>>
        /\ df = None
        /\ pc = "qa_row"

\* xliff_translate_google.py lines 257-276: the unit's result row
QAMakeRow ==
    /\ pc = "qa_row"
    /\ results' = <<MakeRow("1", qa_in[1].source, qa_in[1].target)>>
    /\ pc' = "done"
    /\ UNCHANGED df
    /\ QAFrame

NextQA == QAMakeRow \/ AppQA

SpecQA == InitQA /\ [][NextQA]_vars

Rows == IF df = None THEN {} ELSE Range(df[1])

(* C9  Every row of the classifier has Flagged = ((backend signal and not  *)
(* non-linguistic) or empty target or ratio flag), the backend signal      *)
(* being that the normalised, lowercased source and target are equal and   *)
(* not empty; so a non-linguistic source that stays the same in a target   *)
(* that is not empty is flagged only by its ratio flag.                    *)
C9_FlagCombination ==
    \A r \in Rows :
        LET same == /\ norm_text(r.Source) = norm_text(r.Target)
                    /\ norm_text(r.Source) # <<>>
                    /\ norm_text(r.Target) # <<>>
        IN /\ r.Flagged_backend = same
           /\ r.EmptyTarget = BlankText(r.Target)
           /\ r.Flagged = ((same /\ ~r.NonLinguistic) \/ r.EmptyTarget \/ r.RatioFlag)
           /\ (r.NonLinguistic /\ same) => (r.Flagged = r.RatioFlag)
           /\ r.Source \in {SToken, SPercent, SUpTo, SOk, SHex, SItems}
                 => r.NonLinguistic
           /\ r.Source \in {SThanks, SConfirm20, SCmShort, SVersion}
                 => ~r.NonLinguistic

\* a number that stays the same reaches the classifier with the backend's
\* signal set and leaves it unflagged
C9_Witness ==
    \E r \in Rows :
        /\ r.Source = SPercent
        /\ r.Target = SPercent
        /\ r.Flagged_backend
        /\ r.NonLinguistic
        /\ ~r.Flagged

(* C10 as stated: a row with source length 20 and target length 5 (ratio   *)
(* 0.25) has the ratio flag, and a row with source length 8 and the same   *)
(* ratio has not.                                                          *)
C10_RatioFlagAsStated ==
    \A r \in Rows :
        /\ (Len(r.Source) = 20 /\ Len(r.Target) = 5) => r.RatioFlag
        /\ (Len(r.Source) = 8 /\ Len(r.Target) = 2) => ~r.RatioFlag

(* C10 amended: neither the row of lengths 20 and 5 nor the row of lengths *)
(* 8 and 2 has the ratio flag, the target being shorter than 12; a row has *)
(* it exactly when source and target are both at least 12 long and the     *)
(* ratio is below 0.45 or above 2.2, as the rows of lengths 40 and 12      *)
(* (0.30) and 12 and 27 (2.25) have.                                       *)
C10_RatioFlag ==
    \A r \in Rows :
        LET sl == Len(r.Source)
            tl == Len(r.Target)
        IN /\ (sl = 20 /\ tl = 5) => ~r.RatioFlag
           /\ (sl = 8 /\ tl = 2) => ~r.RatioFlag
           /\ (sl = 40 /\ tl = 12) => r.RatioFlag
           /\ (sl = 12 /\ tl = 27) => r.RatioFlag
           /\ r.RatioFlag = (/\ sl >= 12
                             /\ tl >= 12
                             /\ (20 * tl < 9 * sl \/ 5 * tl > 11 * sl))

\* the rows of lengths 20 and 5 and of lengths 40 and 12 are both
\* classified: this state holds the first
C10_Witness ==
    \E r \in Rows :
        /\ Len(r.Source) = 20
        /\ Len(r.Target) = 5
        /\ r.LengthRatio = <<5, 20>>
        /\ ~r.RatioFlag

---------------------------------------------------------------------------
\* the slots of a subtree that the walker's test lets through
NonEmptySlots(elem) == {sl \in Slots(elem) : HasText(SlotValue(elem, sl))}

\* the (owning node, role) pair of a run
PairOf(n) == <<n.node, n.which>>

(* C11  In the run sequence the walker returns for a unit's source, each    *)
(* (owning node, role) pair occurs at most once, and the number of runs --  *)
(* the number of strings sent to the adapter for the unit -- equals the     *)
(* number of the source's non-empty text slots.                             *)
C11_EachSlotOneRun ==
    \A k \in 1..Len(batch_node_maps) :
        LET nodes == batch_node_maps[k].src_nodes
            src == SourceOf(root.units[batch_node_maps[k].tu])
        IN /\ \A i, j \in 1..Len(nodes) :
                  i # j => PairOf(nodes[i]) # PairOf(nodes[j])
           /\ Len(Cores(nodes)) = Cardinality(NonEmptySlots(src))

\* the keys of the glossary in force, and the value of a key
GlossaryKeys == IF opts.glossary = None THEN {}
                ELSE {opts.glossary[1][i][1] : i \in 1..Len(opts.glossary[1])}

GlossaryValue(K) ==
    opts.glossary[1][CHOOSE i \in 1..Len(opts.glossary[1]) :
                        opts.glossary[1][i][1] = K][2]

\* k is a proper substring of K
ProperSubstring(k, K) == Len(k) < Len(K) /\ Contains(K, k)

(* C12  Glossary substitution gives a longer key precedence over the keys   *)
(* that are proper substrings of it: for every translated string the        *)
(* adapter returned and every occurrence in it of a key K that has such a   *)
(* sub-key, the substituted output is the substitution of what precedes the *)
(* occurrence, then exactly glossary[K], then the substitution of what      *)
(* follows it.                                                              *)
C12_LongerKeyPrecedence ==
    \A n \in 1..Len(translated_flat) :
        \A K \in GlossaryKeys :
            (\E k \in GlossaryKeys : ProperSubstring(k, K))
            => \A p \in 1..Len(translated_flat[n]) :
                  OccursAt(translated_flat[n], K, p)
                  => _apply_glossary(translated_flat[n], opts.glossary)
                       = _apply_glossary(SubSeq(translated_flat[n], 1, p - 1),
                                         opts.glossary)
                         \o GlossaryValue(K)
                         \o _apply_glossary(
                                SubSeq(translated_flat[n], p + Len(K),
                                       Len(translated_flat[n])),
                                opts.glossary)

=============================================================================
